---- MODULE Spec2Model ----
(***************************************************************************)
(* A model of BloomFilter.py: the classic Bloom filter (class BloomFilter) *)
(* and the scalable Bloom filter built from a list of them (class          *)
(* ScalableBloomFilter).                                                   *)
(*                                                                         *)
(* Python objects live in a heap: `heap` holds the BloomFilter objects and *)
(* `sbfs` the ScalableBloomFilter objects, whose `filters` lists hold      *)
(* references (heap indices) to BloomFilter objects, so that two lists can *)
(* share one object exactly as two Python lists do.                        *)
(*                                                                         *)
(* Real numbers are modelled exactly where the code's floats are exact and *)
(* by fixed-point micro-units (1e-6) for natural logarithms:               *)
(*   - an error rate is an integer number of tenths (5 is 0.5);            *)
(*   - a scale factor is a fraction <<numerator, denominator>>.            *)
(***************************************************************************)
EXTENDS Integers, Sequences, FiniteSets, TLC

VARIABLES
    hash,     \* the seeded hash family mmh3.hash: [element, seed] -> integer
    heap,     \* sequence of BloomFilter objects; a reference is an index
    sbfs,     \* sequence of ScalableBloomFilter objects
    added,    \* history: per BloomFilter object, the elements passed to its add
    sadded,   \* history: per ScalableBloomFilter, the elements it must contain
    origin,   \* history: per BloomFilter object, how it was made
    ret       \* the last call: its name, arguments and what it returned

vars == <<hash, heap, sbfs, added, sadded, origin, ret>>

----------------------------------------------------------------------------
(* Bounds of the model.                                                    *)

MaxAdds == 2         \* add calls on BloomFilter objects (specification Spec)
MaxSAdds == 2        \* add calls on ScalableBloomFilter objects (SpecScalable)
MaxGrowthAdds == 71  \* add calls on the ScalableBloomFilter of SpecGrowth

\* the references the driver holds: two operands and a result
Held == 1 .. 3

Elements == {"a", "b"}
HashValues == {-1, 0}       \* mmh3.hash is signed
Seeds == 0 .. 1             \* error rates of 0.5 and more give hash_count <= 2

----------------------------------------------------------------------------
(* Arithmetic.                                                             *)

\* ceil(a / b) for a >= 0, b > 0
CeilDiv(a, b) == (a + b - 1) \div b

RECURSIVE Pow(_, _)
Pow(b, n) == IF n = 0 THEN 1 ELSE b * Pow(b, n - 1)

\* 1e6 * ln(2) and 1e6 * ln(2)^2
Ln2Micro == 693147
Ln2SqMicro == 480453

\* 1e6 * ln(n) for n in 1 .. 10
LnMicro(n) ==
    <<0, 693147, 1098612, 1386294, 1609438,
      1791759, 1945910, 2079442, 2197225, 2302585>>[n]

\* 1e6 * -ln(t / 10) for an error rate of t tenths, 0 < t < 10
NegLnMicro(t) == LnMicro(10) - LnMicro(t)

----------------------------------------------------------------------------
(* class BloomFilter                                                       *)

\* m = - (n * ln(p)) / (ln(2))**2, rounded up
calc_size(capacity, error_rate) ==
    CeilDiv(capacity * NegLnMicro(error_rate), Ln2SqMicro)

\* k = (m/n) * ln(2), rounded up
calc_hash_count(size, capacity) ==
    CeilDiv(size * Ln2Micro, capacity * 1000000)

\* the guards of BloomFilter.__init__: TRUE when it raises ValueError
BloomFilter_invalid(capacity, error_rate) ==
    \/ ~(capacity > 0)
    \/ ~(0 < error_rate /\ error_rate < 10)

\* the object BloomFilter.__init__ builds from valid arguments
BloomFilter(capacity, error_rate) ==
    LET size == calc_size(capacity, error_rate) IN
    [ capacity      |-> capacity,
      element_count |-> 0,
      error_rate    |-> error_rate,
      size          |-> size,
      hash_count    |-> calc_hash_count(size, capacity),
      bit_array     |-> [i \in 0 .. size - 1 |-> 0] ]

\* position = mmh3.hash(element, seed) % self.size (Python's %: never negative)
position(f, element, seed) == hash[<<element, seed>>] % f.size

\* the bits add and lookup visit: one per seed in xrange(hash_count)
positions(f, element) ==
    {position(f, element, seed) : seed \in 0 .. f.hash_count - 1}

\* add whose loop starts at seed 1: for seed in xrange(1, self.hash_count)
BloomFilter_add_from_seed_1(f, element) ==
    [f EXCEPT
        !.bit_array = [i \in 0 .. f.size - 1 |->
                          IF \E seed \in 1 .. f.hash_count - 1 :
                                 i = position(f, element, seed)
                          THEN 1 ELSE @[i]],
        !.element_count = @ + 1]

BloomFilter_add(f, element) ==
    [f EXCEPT
        !.bit_array = [i \in 0 .. f.size - 1 |->
                          IF i \in positions(f, element) THEN 1 ELSE @[i]],
        !.element_count = @ + 1]

\* lookup that answers True as soon as one seed's bit is set
BloomFilter_lookup_any(f, element) ==
    \E p \in positions(f, element) : f.bit_array[p] # 0

\* False at the first seed whose bit is 0, True when no seed has one
BloomFilter_lookup(f, element) ==
    \A p \in positions(f, element) : f.bit_array[p] # 0

\* is_full that compares with <= where the code has <
is_full_strict(f) == ~(f.element_count <= f.capacity)

is_full(f) == ~(f.element_count < f.capacity)

\* self.bit_array.count()
count(f) == Cardinality({i \in 0 .. f.size - 1 : f.bit_array[i] = 1})

\* log(1.0 - x / size) raises ValueError (math domain error) when x = size
calc_element_count_raises(f) == count(f) = f.size

\* i = - (m * ln(1 - (x/m))) / k, rounded up; defined when x < size
calc_element_count(f) ==
    CeilDiv(f.size * (LnMicro(f.size) - LnMicro(f.size - count(f))),
            f.hash_count * 1000000)

\* the first early return of union and intersection without the second
incompatible_size_only(a, b) == a.size # b.size

\* the two early returns of union and intersection: TRUE when None is returned

incompatible(a, b) == a.size # b.size \/ a.hash_count # b.hash_count

\* union that keeps only self's bits
BloomFilter_union_self(a, b) ==
    [BloomFilter(a.capacity, a.error_rate) EXCEPT
        !.bit_array = a.bit_array,
        !.element_count = a.element_count + b.element_count]

\* the filter union returns for compatible operands
BloomFilter_union(a, b) ==
    [BloomFilter(a.capacity, a.error_rate) EXCEPT
        !.bit_array = [i \in 0 .. a.size - 1 |->
                          IF a.bit_array[i] = 1 \/ b.bit_array[i] = 1 THEN 1 ELSE 0],
        !.element_count = a.element_count + b.element_count]

\* the bit array intersection computes: self.bit_array & b.bit_array
and_bits(a, b) ==
    [i \in 0 .. a.size - 1 |->
        IF a.bit_array[i] = 1 /\ b.bit_array[i] = 1 THEN 1 ELSE 0]

\* the result object of intersection once its bit array is replaced and
\* before its element_count is estimated
intersection_bits(a, b) ==
    [BloomFilter(a.capacity, a.error_rate) EXCEPT !.bit_array = and_bits(a, b)]

\* intersection raises when the estimator does
BloomFilter_intersection_raises(a, b) ==
    calc_element_count_raises(intersection_bits(a, b))

\* the filter intersection returns for compatible operands when it returns
BloomFilter_intersection(a, b) ==
    [intersection_bits(a, b) EXCEPT
        !.element_count = calc_element_count(intersection_bits(a, b))]

----------------------------------------------------------------------------
(* class ScalableBloomFilter                                               *)

SCALE_MODE_LINEAR == 1
SCALE_MODE_EXPONENTIAL == 2

\* the guards of ScalableBloomFilter.__init__ without the one on scale_factor
ScalableBloomFilter_invalid_no_factor(initial_capacity, error_rate, scale_factor, scale_mode) ==
    \/ ~(initial_capacity > 0)
    \/ ~(0 < error_rate /\ error_rate < 10)
    \/ ~(scale_mode \in {1, 2})

\* the guards of ScalableBloomFilter.__init__: TRUE when it raises ValueError
ScalableBloomFilter_invalid(initial_capacity, error_rate, scale_factor, scale_mode) ==
    \/ ~(initial_capacity > 0)
    \/ ~(0 < error_rate /\ error_rate < 10)
    \/ ~(scale_factor[1] > 0)
    \/ ~(scale_mode \in {1, 2})

\* the object ScalableBloomFilter.__init__ builds; first is the reference of
\* the BloomFilter(initial_capacity, error_rate) it appends to filters
ScalableBloomFilter(initial_capacity, error_rate, scale_factor, scale_mode, first) ==
    [ initial_capacity |-> initial_capacity,
      element_count    |-> 0,
      error_rate       |-> error_rate,
      scale_factor     |-> scale_factor,
      scale_mode       |-> scale_mode,
      filters          |-> <<first>> ]

\* int(initial_capacity * (scale_factor * len(filters))) and
\* int(initial_capacity * (scale_factor ** len(filters))); int truncates
calc_next_capacity(s) ==
    LET n == Len(s.filters)
        num == s.scale_factor[1]
        den == s.scale_factor[2]
    IN  IF s.scale_mode = SCALE_MODE_LINEAR
        THEN (s.initial_capacity * (num * n)) \div den
        ELSE (s.initial_capacity * Pow(num, n)) \div Pow(den, n)

\* for f in reversed(self.filters): if f.lookup(string): return True
RECURSIVE lookup_from(_, _, _)
lookup_from(filters, n, element) ==
    IF n = 0 THEN FALSE
    ELSE IF BloomFilter_lookup(heap[filters[n]], element) THEN TRUE
    ELSE lookup_from(filters, n - 1, element)

\* lookup that asks the newest filter alone
ScalableBloomFilter_lookup_last(s, element) ==
    BloomFilter_lookup(heap[s.filters[Len(s.filters)]], element)

ScalableBloomFilter_lookup(s, element) ==
    lookup_from(s.filters, Len(s.filters), element)

\* union that leaves b's filters out of the result
ScalableBloomFilter_union_self(a, b) ==
    [ScalableBloomFilter(a.initial_capacity, a.error_rate, a.scale_factor,
                         a.scale_mode, 0) EXCEPT
        !.filters = a.filters,
        !.element_count = a.element_count + b.element_count]

\* union that puts b's filters first
ScalableBloomFilter_union_swapped(a, b) ==
    [ScalableBloomFilter(a.initial_capacity, a.error_rate, a.scale_factor,
                         a.scale_mode, 0) EXCEPT
        !.filters = b.filters \o a.filters,
        !.element_count = a.element_count + b.element_count]

\* the object union returns: self's parameters, both lists of references
ScalableBloomFilter_union(a, b) ==
    [ScalableBloomFilter(a.initial_capacity, a.error_rate, a.scale_factor,
                         a.scale_mode, 0) EXCEPT
        !.filters = a.filters \o b.filters,
        !.element_count = a.element_count + b.element_count]

----------------------------------------------------------------------------
(* The calls a driver makes on BloomFilter objects.                        *)

NoRet == [op |-> "none", a |-> 0, b |-> 0, e |-> "", val |-> "", obj |-> 0,
          args |-> <<>>]

Refs == 1 .. Len(heap)

RECURSIVE SumLen(_)
SumLen(seqs) == IF seqs = <<>> THEN 0 ELSE Len(Head(seqs)) + SumLen(Tail(seqs))

\* the driver has a free reference for one more object
Room == Len(heap) + 1 \in Held

\* the object a constructor call or a union/intersection returned
Alloc(f, how) ==
    /\ heap' = Append(heap, f)
    /\ added' = Append(added, <<>>)
    /\ origin' = Append(origin, how)

\* b = BloomFilter(capacity, error_rate)
NewBloomFilter(capacity, error_rate) ==
    /\ IF BloomFilter_invalid(capacity, error_rate)
       THEN /\ ret' = [NoRet EXCEPT !.op = "BloomFilter", !.val = "ValueError",
                                    !.args = <<capacity, error_rate>>]
            /\ UNCHANGED <<heap, added, origin>>
       ELSE /\ Alloc(BloomFilter(capacity, error_rate), "new")
            /\ ret' = [NoRet EXCEPT !.op = "BloomFilter", !.val = "object",
                                    !.obj = Len(heap) + 1,
                                    !.args = <<capacity, error_rate>>]
    /\ UNCHANGED <<hash, sbfs, sadded>>

\* heap[i].add(e)
Add(i, e) ==
    /\ heap' = [heap EXCEPT ![i] = BloomFilter_add(@, e)]
    /\ added' = [added EXCEPT ![i] = Append(@, e)]
    /\ ret' = [NoRet EXCEPT !.op = "add", !.val = "None"]
    /\ UNCHANGED <<hash, sbfs, sadded, origin>>

\* a union that ORs heap[j] into heap[i] and returns heap[i] itself, where the
\* code builds a new BloomFilter
Union_in_place(i, j) ==
    /\ IF incompatible(heap[i], heap[j])
       THEN /\ ret' = [NoRet EXCEPT !.op = "union", !.a = i, !.b = j,
                                    !.val = "None"]
            /\ UNCHANGED <<heap, added, origin>>
       ELSE /\ heap' = [heap EXCEPT ![i] = BloomFilter_union(heap[i], heap[j])]
            /\ UNCHANGED <<added, origin>>
            /\ ret' = [NoRet EXCEPT !.op = "union", !.a = i, !.b = j,
                                    !.val = "object", !.obj = i]
    /\ UNCHANGED <<hash, sbfs, sadded>>

\* r = heap[i].union(heap[j])
Union(i, j) ==
    /\ IF incompatible(heap[i], heap[j])
       THEN /\ ret' = [NoRet EXCEPT !.op = "union", !.a = i, !.b = j,
                                    !.val = "None"]
            /\ UNCHANGED <<heap, added, origin>>
       ELSE /\ Alloc(BloomFilter_union(heap[i], heap[j]), "union")
            /\ ret' = [NoRet EXCEPT !.op = "union", !.a = i, !.b = j,
                                    !.val = "object", !.obj = Len(heap) + 1]
    /\ UNCHANGED <<hash, sbfs, sadded>>

\* r = heap[i].intersection(heap[j])
Intersection(i, j) ==
    /\ IF incompatible(heap[i], heap[j])
       THEN /\ ret' = [NoRet EXCEPT !.op = "intersection", !.a = i, !.b = j,
                                    !.val = "None"]
            /\ UNCHANGED <<heap, added, origin>>
       ELSE IF BloomFilter_intersection_raises(heap[i], heap[j])
       THEN /\ ret' = [NoRet EXCEPT !.op = "intersection", !.a = i, !.b = j,
                                    !.val = "ValueError"]
            /\ UNCHANGED <<heap, added, origin>>
       ELSE /\ Alloc(BloomFilter_intersection(heap[i], heap[j]), "intersection")
            /\ ret' = [NoRet EXCEPT !.op = "intersection", !.a = i, !.b = j,
                                    !.val = "object", !.obj = Len(heap) + 1]
    /\ UNCHANGED <<hash, sbfs, sadded>>

----------------------------------------------------------------------------
(* The calls a driver makes on ScalableBloomFilter objects.                *)

SRefs == 1 .. Len(sbfs)

\* the first BloomFilter of s where the code takes the last, self.filters[0]
last_is_first(s) == s.filters[1]

\* the reference of the last BloomFilter of s: self.filters[-1]
last(s) == s.filters[Len(s.filters)]

\* s = ScalableBloomFilter(initial_capacity, error_rate, scale_factor, scale_mode)
NewScalable(initial_capacity, error_rate, scale_factor, scale_mode) ==
    /\ IF ScalableBloomFilter_invalid(initial_capacity, error_rate,
                                      scale_factor, scale_mode)
       THEN /\ ret' = [NoRet EXCEPT
                         !.op = "ScalableBloomFilter", !.val = "ValueError",
                         !.args = <<initial_capacity, error_rate,
                                    scale_factor, scale_mode>>]
            /\ UNCHANGED <<heap, added, origin, sbfs, sadded>>
       ELSE /\ Alloc(BloomFilter(initial_capacity, error_rate), "new")
            /\ sbfs' = Append(sbfs,
                   ScalableBloomFilter(initial_capacity, error_rate,
                                       scale_factor, scale_mode, Len(heap) + 1))
            /\ sadded' = Append(sadded, {})
            /\ ret' = [NoRet EXCEPT
                         !.op = "ScalableBloomFilter", !.val = "object",
                         !.obj = Len(sbfs) + 1,
                         !.args = <<initial_capacity, error_rate,
                                    scale_factor, scale_mode>>]
    /\ UNCHANGED hash

\* sbfs[s].add(e)
SAdd(s, e) ==
    LET self == sbfs[s]
        grow == is_full(heap[last(self)])
        capacity == calc_next_capacity(self)
    IN
    /\ IF grow /\ BloomFilter_invalid(capacity, self.error_rate)
       THEN \* BloomFilter(...) raises before anything is appended
            /\ ret' = [NoRet EXCEPT !.op = "sadd", !.a = s, !.val = "ValueError"]
            /\ UNCHANGED <<heap, added, origin, sbfs, sadded>>
       ELSE /\ IF grow
               THEN /\ heap' = Append(heap,
                          BloomFilter_add(BloomFilter(capacity, self.error_rate), e))
                    /\ added' = Append(added, <<e>>)
                    /\ origin' = Append(origin, "new")
                    /\ sbfs' = [sbfs EXCEPT
                          ![s].filters = Append(@, Len(heap) + 1),
                          ![s].element_count = @ + 1]
               ELSE /\ heap' = [heap EXCEPT ![last(self)] = BloomFilter_add(@, e)]
                    /\ added' = [added EXCEPT ![last(self)] = Append(@, e)]
                    /\ origin' = origin
                    /\ sbfs' = [sbfs EXCEPT ![s].element_count = @ + 1]
            /\ sadded' = [sadded EXCEPT ![s] = @ \cup {e}]
            /\ ret' = [NoRet EXCEPT !.op = "sadd", !.a = s, !.val = "None"]
    /\ UNCHANGED hash

\* r = sbfs[s].union(sbfs[t]); the BloomFilter the constructor of r made is
\* dropped with the list that held it, so no reference to it remains
SUnion(s, t) ==
    /\ sbfs' = Append(sbfs, ScalableBloomFilter_union(sbfs[s], sbfs[t]))
    /\ sadded' = Append(sadded, sadded[s] \cup sadded[t])
    /\ ret' = [NoRet EXCEPT !.op = "sunion", !.a = s, !.b = t,
                            !.val = "object", !.obj = Len(sbfs) + 1]
    /\ UNCHANGED <<hash, heap, added, origin>>

----------------------------------------------------------------------------
(* Specification of BloomFilter objects alone.                             *)

\* <<capacity, error_rate>>: sizes and hash counts <<2,2>>, <<2,2>>, <<2,1>>, <<1,1>>
Configs == {<<1, 5>>, <<1, 6>>, <<2, 7>>, <<2, 9>>}

Init ==
    /\ hash \in [Elements \X Seeds -> HashValues]
    /\ heap = <<>>
    /\ sbfs = <<>>
    /\ added = <<>>
    /\ sadded = <<>>
    /\ origin = <<>>
    /\ ret = NoRet

Next ==
    \/ \E c \in Configs : Room /\ NewBloomFilter(c[1], c[2])
    \/ \E i \in Refs, e \in Elements : SumLen(added) < MaxAdds /\ Add(i, e)
    \/ \E i \in Refs, j \in Refs : Room /\ Union(i, j)
    \/ \E i \in Refs, j \in Refs : Room /\ Intersection(i, j)

Spec == Init /\ [][Next]_vars

----------------------------------------------------------------------------
(* Specification of ScalableBloomFilter objects.                           *)

\* <<initial_capacity, error_rate, scale_factor, scale_mode>>
SConfigs ==
    { <<1, 5, <<2, 1>>, SCALE_MODE_LINEAR>>,
      <<2, 9, <<3, 2>>, SCALE_MODE_EXPONENTIAL>>,
      <<1, 5, <<1, 2>>, SCALE_MODE_LINEAR>> }

\* the driver has a free reference for one more ScalableBloomFilter
SRoom == Len(sbfs) + 1 \in Held

RECURSIVE SumCount(_)
SumCount(objs) ==
    IF objs = <<>> THEN 0 ELSE Head(objs).element_count + SumCount(Tail(objs))

NextScalable ==
    \/ \E c \in SConfigs : SRoom /\ NewScalable(c[1], c[2], c[3], c[4])
    \/ \E s \in SRefs, e \in Elements : SumCount(heap) < MaxSAdds /\ SAdd(s, e)
    \/ \E s \in SRefs, t \in SRefs : SRoom /\ SUnion(s, t)

SpecScalable == Init /\ [][NextScalable]_vars

----------------------------------------------------------------------------
(* Properties of BloomFilter objects, checked under Spec.                  *)

\* the filter built from scratch by adding the elements of elems in order
RECURSIVE FromScratch(_, _, _)
FromScratch(capacity, error_rate, elems) ==
    IF elems = <<>> THEN BloomFilter(capacity, error_rate)
    ELSE BloomFilter_add(
             FromScratch(capacity, error_rate, SubSeq(elems, 1, Len(elems) - 1)),
             elems[Len(elems)])

Range(seq) == {seq[n] : n \in 1 .. Len(seq)}

\* C1: no false negatives. In every state, every BloomFilter object answers
\* lookup(e) = True for every element e that one of its add calls was given,
\* whatever was added since and however far past capacity it is.
C1_NoFalseNegatives ==
    \A i \in Refs : \A e \in Range(added[i]) : BloomFilter_lookup(heap[i], e)

\* a filter holding two different elements, loaded past its capacity
C1_Witness ==
    \E i \in Refs :
        /\ Range(added[i]) = Elements
        /\ heap[i].element_count > heap[i].capacity
        /\ positions(heap[i], "a") # positions(heap[i], "b")

\* C3: union is lossless. The object union(A, B) returns for filters A and B
\* built by add calls alone equals, field by field (bit array, element_count,
\* capacity, error_rate, size, hash_count), the filter of A's capacity and
\* error_rate built from scratch by adding A's elements and then B's; so both
\* answer every lookup alike, and the union finds whatever A or B finds.
C3_UnionLossless ==
    (ret.op = "union" /\ ret.val = "object"
        /\ origin[ret.a] = "new" /\ origin[ret.b] = "new")
    => LET A == heap[ret.a]
           B == heap[ret.b]
           R == heap[ret.obj]
           S == FromScratch(A.capacity, A.error_rate,
                            added[ret.a] \o added[ret.b])
       IN  /\ R = S
           /\ \A e \in Elements :
                 /\ BloomFilter_lookup(R, e) = BloomFilter_lookup(S, e)
                 /\ (BloomFilter_lookup(A, e) \/ BloomFilter_lookup(B, e))
                       => BloomFilter_lookup(R, e)

\* a union of two filters of different error rates holding different elements
C3_Witness ==
    /\ ret.op = "union" /\ ret.val = "object"
    /\ origin[ret.a] = "new" /\ origin[ret.b] = "new"
    /\ heap[ret.a].error_rate # heap[ret.b].error_rate
    /\ added[ret.a] # <<>> /\ added[ret.b] # <<>>
    /\ heap[ret.a].bit_array # heap[ret.b].bit_array
    /\ heap[ret.obj].bit_array # heap[ret.a].bit_array

\* C4: intersection conservatism. For compatible filters A and B (equal size
\* and hash_count), intersection(A, B) is a filter whose lookup(e) is True
\* only if A.lookup(e) and B.lookup(e) are, and is True for every element
\* that add calls gave to both A and B.
C4_IntersectionConservative ==
    (/\ ret.op = "intersection"
     /\ heap[ret.a].size = heap[ret.b].size
     /\ heap[ret.a].hash_count = heap[ret.b].hash_count)
    => /\ ret.val = "object"
       /\ \A e \in Elements :
             /\ BloomFilter_lookup(heap[ret.obj], e)
                   => (BloomFilter_lookup(heap[ret.a], e)
                       /\ BloomFilter_lookup(heap[ret.b], e))
             /\ e \in Range(added[ret.a]) \cap Range(added[ret.b])
                   => BloomFilter_lookup(heap[ret.obj], e)

\* C5 as stated: union and intersection of filters whose size or hash_count
\* differ signal an explicit incompatibility error, distinguishable from a
\* normal or absent return value.
C5_ExplicitError ==
    (/\ ret.op \in {"union", "intersection"}
     /\ (heap[ret.a].size # heap[ret.b].size
         \/ heap[ret.a].hash_count # heap[ret.b].hash_count))
    => ret.val = "IncompatibleFilter"

\* C5 as amended: union and intersection of filters whose size or
\* hash_count differ return None (the absent value, no exception), make no
\* filter and leave every object, both operands included, as it was.
C5_ReturnsNone ==
    [][ (/\ ret'.op \in {"union", "intersection"}
         /\ (heap[ret'.a].size # heap[ret'.b].size
             \/ heap[ret'.a].hash_count # heap[ret'.b].hash_count))
        => (/\ ret'.val = "None"
            /\ ret'.obj = 0
            /\ heap' = heap) ]_vars

\* an intersection refused for the hash counts alone, of filters with elements
C5_Witness ==
    /\ ret.op = "intersection" /\ ret.val = "None"
    /\ ret.a # ret.b
    /\ heap[ret.a].size = heap[ret.b].size
    /\ heap[ret.a].hash_count # heap[ret.b].hash_count
    /\ added[ret.a] # <<>> /\ added[ret.b] # <<>>

\* C7: capacity check. For a filter changed by add calls alone, is_full() is
\* False while fewer than capacity add calls were made and True once
\* capacity add calls were made, past capacity too; and no step takes
\* is_full() of any filter from True back to False.
C7_IsFull ==
    /\ [](\A i \in Refs : origin[i] = "new" =>
             (is_full(heap[i]) <=> Len(added[i]) >= heap[i].capacity))
    /\ [][\A i \in Refs : is_full(heap[i]) => is_full(heap'[i])]_vars

\* one filter loaded past its capacity next to one that is one add short of it
C7_Witness ==
    /\ \E i \in Refs : origin[i] = "new" /\ Len(added[i]) > heap[i].capacity
    /\ \E i \in Refs : origin[i] = "new" /\ Len(added[i]) < heap[i].capacity

----------------------------------------------------------------------------
(* Properties of ScalableBloomFilter objects, checked under SpecScalable.  *)

Filters(s) == {sbfs[s].filters[n] : n \in 1 .. Len(sbfs[s].filters)}

\* C2: no false negatives across growth and union. In every state, every
\* ScalableBloomFilter answers lookup(e) = True for every element e that an
\* add call that returned gave it, and for every element its operands held
\* when union made it.
C2_NoFalseNegatives ==
    \A s \in SRefs : \A e \in sadded[s] : ScalableBloomFilter_lookup(sbfs[s], e)

\* a union result that grew afterwards: it holds both elements, one of them
\* in an older filter only
C2_Witness ==
    \E s \in SRefs :
        /\ ret.op = "sadd" /\ ret.a = s /\ ret.val = "None"
        /\ s > 1
        /\ Len(sbfs[s].filters) >= 3
        /\ sadded[s] = Elements
        /\ \E e \in Elements : ~BloomFilter_lookup(heap[last(sbfs[s])], e)

\* C9: lookup is the logical OR over the member filters. In every state, for
\* every ScalableBloomFilter and element, lookup (newest filter first, True
\* at the first filter that answers True) is True exactly when some filter
\* of filters answers True, which is also what asking the filters oldest
\* first gives.
RECURSIVE lookup_oldest_first(_, _, _)
lookup_oldest_first(filters, n, element) ==
    IF n > Len(filters) THEN FALSE
    ELSE IF BloomFilter_lookup(heap[filters[n]], element) THEN TRUE
    ELSE lookup_oldest_first(filters, n + 1, element)

C9_LookupIsOr ==
    \A s \in SRefs : \A e \in Elements :
        /\ ScalableBloomFilter_lookup(sbfs[s], e)
              <=> (\E i \in Filters(s) : BloomFilter_lookup(heap[i], e))
        /\ ScalableBloomFilter_lookup(sbfs[s], e)
              <=> lookup_oldest_first(sbfs[s].filters, 1, e)

\* a filter list where one element is found only in an older filter and the
\* other element in no filter
C9_Witness ==
    \E s \in SRefs : \E e1 \in Elements, e2 \in Elements :
        /\ Len(sbfs[s].filters) >= 2
        /\ ~BloomFilter_lookup(heap[last(sbfs[s])], e1)
        /\ ScalableBloomFilter_lookup(sbfs[s], e1)
        /\ ~ScalableBloomFilter_lookup(sbfs[s], e2)

\* C10: a.union(b) makes a new ScalableBloomFilter with a's initial_capacity,
\* error_rate, scale_factor and scale_mode, whose filters are a's filters
\* followed by b's, the same objects in the same order, and whose
\* element_count is the sum of a's and b's; it returns an object whatever
\* b's parameters are.
C10_Union ==
    ret.op = "sunion"
    => /\ ret.val = "object"
       /\ ret.obj = Len(sbfs)
       /\ LET a == sbfs[ret.a]
              b == sbfs[ret.b]
              r == sbfs[ret.obj]
          IN  /\ r.initial_capacity = a.initial_capacity
              /\ r.error_rate = a.error_rate
              /\ r.scale_factor = a.scale_factor
              /\ r.scale_mode = a.scale_mode
              /\ r.filters = a.filters \o b.filters
              /\ r.element_count = a.element_count + b.element_count

\* a union of two differently configured filters that both hold an element
C10_Witness ==
    /\ ret.op = "sunion"
    /\ ret.a # ret.b
    /\ sbfs[ret.a].initial_capacity # sbfs[ret.b].initial_capacity
    /\ sbfs[ret.a].error_rate # sbfs[ret.b].error_rate
    /\ sbfs[ret.a].scale_factor # sbfs[ret.b].scale_factor
    /\ sbfs[ret.a].scale_mode # sbfs[ret.b].scale_mode
    /\ sbfs[ret.a].element_count > 0
    /\ sbfs[ret.b].element_count > 0
    /\ sbfs[ret.a].filters # sbfs[ret.b].filters

----------------------------------------------------------------------------
(* Specification of the two constructors, invalid arguments included.      *)

NewCapacities == {-1, 0, 1, 2}
NewErrorRates == {0, 5, 10, 11}
NewScaleFactors == {<<0, 1>>, <<1, 2>>, <<2, 1>>}
NewScaleModes == {0, 1, 2, 3}

NextNew ==
    \/ \E capacity \in NewCapacities, error_rate \in NewErrorRates :
          Room /\ NewBloomFilter(capacity, error_rate)
    \/ \E initial_capacity \in NewCapacities, error_rate \in NewErrorRates,
          scale_factor \in NewScaleFactors, scale_mode \in NewScaleModes :
          Room /\ SRoom /\ NewScalable(initial_capacity, error_rate,
                                       scale_factor, scale_mode)

\* the constructors hash nothing: one hash family is enough here
InitNew == Init /\ \A x \in Elements \X Seeds : hash[x] = 0

SpecNew == InitNew /\ [][NextNew]_vars

\* a BloomFilter nothing was added to
Empty(f) == f.element_count = 0 /\ \A i \in 0 .. f.size - 1 : f.bit_array[i] = 0

\* C8: constructor validation. BloomFilter(capacity, error_rate) raises
\* ValueError exactly when capacity <= 0 or error_rate is not strictly
\* between 0 and 1; ScalableBloomFilter(...) raises exactly when
\* initial_capacity <= 0, or error_rate is not in (0,1), or scale_factor <= 0,
\* or scale_mode is neither LINEAR nor EXPONENTIAL; a call that raises makes
\* no object; a ScalableBloomFilter that was made has element_count 0 and
\* exactly one filter, empty and of capacity initial_capacity.
C8_Constructors ==
    /\ [](ret.op = "BloomFilter" =>
            /\ ret.val = "ValueError"
                  <=> (ret.args[1] <= 0 \/ ~(0 < ret.args[2] /\ ret.args[2] < 10))
            /\ ret.val # "ValueError" =>
                  /\ ret.val = "object" /\ ret.obj = Len(heap)
                  /\ heap[ret.obj].capacity = ret.args[1]
                  /\ heap[ret.obj].error_rate = ret.args[2]
                  /\ Empty(heap[ret.obj]))
    /\ [](ret.op = "ScalableBloomFilter" =>
            /\ ret.val = "ValueError"
                  <=> \/ ret.args[1] <= 0
                      \/ ~(0 < ret.args[2] /\ ret.args[2] < 10)
                      \/ ret.args[3][1] <= 0
                      \/ ret.args[4] \notin {SCALE_MODE_LINEAR,
                                             SCALE_MODE_EXPONENTIAL}
            /\ ret.val # "ValueError" =>
                  /\ ret.val = "object" /\ ret.obj = Len(sbfs)
                  /\ sbfs[ret.obj].element_count = 0
                  /\ Len(sbfs[ret.obj].filters) = 1
                  /\ heap[sbfs[ret.obj].filters[1]].capacity = ret.args[1]
                  /\ Empty(heap[sbfs[ret.obj].filters[1]]))
    /\ [][ret'.val = "ValueError" => (heap' = heap /\ sbfs' = sbfs)]_vars

\* both constructors have succeeded and the last call, with a scale_factor
\* of 0 as its only invalid argument, has raised
C8_Witness ==
    /\ Len(sbfs) >= 1
    /\ Len(heap) >= 2
    /\ ret.op = "ScalableBloomFilter" /\ ret.val = "ValueError"
    /\ ret.args[1] > 0 /\ ret.args[2] = 5 /\ ret.args[4] = SCALE_MODE_EXPONENTIAL
    /\ ret.args[3] = <<0, 1>>

----------------------------------------------------------------------------
(* Specification of the growth of one ScalableBloomFilter.                 *)

\* <<initial_capacity, error_rate, scale_factor, scale_mode>>
GrowthConfigs ==
    { <<c, 5, f, m>> : c \in {1, 10}, f \in {<<1, 2>>, <<3, 2>>, <<2, 1>>},
                       m \in {SCALE_MODE_LINEAR, SCALE_MODE_EXPONENTIAL} }

NextGrowth ==
    \/ \E c \in GrowthConfigs :
          sbfs = <<>> /\ NewScalable(c[1], c[2], c[3], c[4])
    \/ \E s \in SRefs :
          sbfs[s].element_count < MaxGrowthAdds /\ SAdd(s, "a")

SpecGrowth == Init /\ [][NextGrowth]_vars

\* the capacities of the filters of s, oldest first
Capacities(s) == [n \in 1 .. Len(sbfs[s].filters) |-> heap[sbfs[s].filters[n]].capacity]

IsPrefix(p, q) == Len(p) <= Len(q) /\ p = SubSeq(q, 1, Len(p))

\* C6: growth policy. An add call appends a filter exactly when the last
\* filter is full just before it; the appended filter's capacity is
\* initial_capacity * scale_factor * L (LINEAR) or initial_capacity *
\* scale_factor ^ L (EXPONENTIAL), L being the number of filters before the
\* call; with initial_capacity 10 and scale_factor 2, 11 adds give exactly 2
\* filters and the capacities run 10, 20, 40, 60 (LINEAR) and 10, 20, 40, 80
\* (EXPONENTIAL).
C6_GrowthPolicy ==
    /\ [][ (sbfs # <<>> /\ ret'.op = "sadd") =>
             LET self == sbfs[1]
                 L == Len(self.filters)
                 num == self.scale_factor[1]
                 den == self.scale_factor[2]
                 appended == Len(sbfs'[1].filters) = L + 1
                 capacity == heap'[sbfs'[1].filters[L + 1]].capacity
             IN  /\ appended <=> heap[self.filters[L]].element_count
                                     >= heap[self.filters[L]].capacity
                 /\ (~appended) => sbfs'[1].filters = self.filters
                 /\ appended =>
                       IF self.scale_mode = SCALE_MODE_LINEAR
                       THEN capacity * den = self.initial_capacity * num * L
                       ELSE capacity * Pow(den, L)
                               = self.initial_capacity * Pow(num, L) ]_vars
    /\ [](\A s \in SRefs :
            (sbfs[s].initial_capacity = 10 /\ sbfs[s].scale_factor = <<2, 1>>) =>
                /\ sbfs[s].element_count = 11 => Len(sbfs[s].filters) = 2
                /\ IF sbfs[s].scale_mode = SCALE_MODE_LINEAR
                   THEN IsPrefix(Capacities(s), <<10, 20, 40, 60>>)
                   ELSE IsPrefix(Capacities(s), <<10, 20, 40, 80>>))

----------------------------------------------------------------------------
(* The error-rate estimate, as an exact fraction.                          *)

\* p = (1 - (1 - 1/m)**(k*n))**k as the fraction <<numerator, denominator>>;
\* n is the capacity when use_capacity is set and the element_count otherwise
calc_error_rate(f, use_capacity) ==
    LET n == IF use_capacity THEN f.capacity ELSE f.element_count
        m == f.size
        k == f.hash_count
        miss == Pow(m - 1, k * n)       \* (1 - 1/m)**(k*n) = miss / all
        all == Pow(m, k * n)
    IN  <<Pow(all - miss, k), Pow(all, k)>>

\* |r - t/10| <= 1e-6 for a fraction r and an error rate of t tenths
WithinTolerance(r, t) ==
    LET d == 10 * r[1] - t * r[2]
    IN  (IF d < 0 THEN -d ELSE d) * 1000000 <= 10 * r[2]

\* C11: sizing inversion. For every filter made from a valid (capacity,
\* error_rate), calc_error_rate(use_capacity = True), computed from the size
\* and hash_count the constructor derived, equals the error_rate given to the
\* constructor within tolerance (here 1e-6, far wider than float rounding).
C11_SizingInversion ==
    \A i \in Refs :
        origin[i] = "new" =>
            WithinTolerance(calc_error_rate(heap[i], TRUE), heap[i].error_rate)

----------------------------------------------------------------------------
(* Properties of the error paths.                                          *)

\* C12: ScalableBloomFilter.add always completes. On a filter made from
\* valid parameters (scale factors below 1 and non-integer ones included),
\* every add call returns without raising: the growth step yields a capacity
\* BloomFilter accepts, the element is stored in the last filter, and
\* element_count grows by exactly 1.
C12_AddCompletes ==
    [][ (sbfs # <<>> /\ ret'.op = "sadd") =>
          LET s == ret'.a
              f == last(sbfs'[s])
          IN  /\ ret'.val = "None"
              /\ sbfs'[s].element_count = sbfs[s].element_count + 1
              /\ added'[f] # <<>>
              /\ BloomFilter_lookup(heap'[f], added'[f][Len(added'[f])]) ]_vars

\* C13: intersection and the estimator are total on compatible operands.
\* For filters of equal size and hash_count in any state, saturated bit
\* arrays included, intersection returns a new filter whose bit array is the
\* bitwise AND of the operands' and whose element_count is the estimator's
\* value ceil(-size * ln(1 - x/size) / hash_count), and raises nothing.
C13_IntersectionTotal ==
    (/\ ret.op = "intersection"
     /\ heap[ret.a].size = heap[ret.b].size
     /\ heap[ret.a].hash_count = heap[ret.b].hash_count)
    => /\ ret.val = "object"
       /\ ret.obj = Len(heap)
       /\ \A i \in 0 .. heap[ret.a].size - 1 :
             heap[ret.obj].bit_array[i] = 1
                <=> (heap[ret.a].bit_array[i] = 1 /\ heap[ret.b].bit_array[i] = 1)
       /\ heap[ret.obj].element_count = calc_element_count(heap[ret.obj])

----------------------------------------------------------------------------
(* Properties of ownership, checked under SpecScalable.                    *)

\* the step leaves ScalableBloomFilter x as it was: its fields, its filters
\* list, every member filter's fields and every lookup result
Untouched(x) ==
    /\ sbfs'[x] = sbfs[x]
    /\ \A n \in 1 .. Len(sbfs[x].filters) :
          heap'[sbfs[x].filters[n]] = heap[sbfs[x].filters[n]]
    /\ \A e \in Elements :
          (ScalableBloomFilter_lookup(sbfs[x], e))'
             = ScalableBloomFilter_lookup(sbfs[x], e)

\* C14: the operands of union are independent of its result. After
\* r = a.union(b), an add call on r leaves every lookup result, every member
\* filter's bit array and element_count and the filters list of a and of b
\* unchanged, and an add call on a or b leaves r unchanged. Stated for the
\* add call that follows the union.
C14_UnionIndependent ==
    [][ (ret.op = "sunion" /\ ret'.op = "sadd") =>
          /\ ret'.a = ret.obj => (Untouched(ret.a) /\ Untouched(ret.b))
          /\ ret'.a \in {ret.a, ret.b} => Untouched(ret.obj) ]_vars

RECURSIVE SumCounts(_)
SumCounts(filters) ==
    IF filters = <<>> THEN 0
    ELSE heap[Head(filters)].element_count + SumCounts(Tail(filters))

\* C15: aggregate count consistency. In every state reachable by
\* constructions, add calls and unions in any order, the element_count of
\* every ScalableBloomFilter equals the sum of the element_count fields of
\* the BloomFilters in its filters list.
C15_CountIsSum ==
    \A s \in SRefs : sbfs[s].element_count = SumCounts(sbfs[s].filters)

\* an add call on ScalableBloomFilter s leaves every BloomFilter object of s
\* other than the (possibly just-appended) last one unchanged, keeps the
\* existing entries of filters in place and lengthens filters by at most one
AddFrame(s) ==
    /\ IsPrefix(sbfs[s].filters, sbfs'[s].filters)
    /\ Len(sbfs'[s].filters) <= Len(sbfs[s].filters) + 1
    /\ \A f \in Filters(s) : f # last(sbfs'[s]) => heap'[f] = heap[f]

\* a filter of s before the final position that is not full, while the final
\* one is not full either, receives nothing in this step
NonFinalKept(s) ==
    \A n \in 1 .. Len(sbfs[s].filters) - 1 :
        (~is_full(heap[sbfs[s].filters[n]]) /\ ~is_full(heap[last(sbfs[s])]))
            => heap'[sbfs[s].filters[n]] = heap[sbfs[s].filters[n]]

\* C16: ScalableBloomFilter.add touches only the newest filter and filters is
\* append-only: every add leaves the bit array and element_count of every
\* filter other than the last one unchanged, never removes, replaces or
\* reorders an entry of filters and lengthens it by at most one; and a
\* non-final filter that is not full, in a filters list whose final filter is
\* not full either (the result of a union), never receives another element.
C16_AppendOnly ==
    [][ /\ ret'.op = "sadd" => AddFrame(ret'.a)
        /\ \A s \in SRefs : NonFinalKept(s) ]_vars

\* the part of C16 about the add call itself
C16_AddFrameOnly ==
    [][ ret'.op = "sadd" => AddFrame(ret'.a) ]_vars

----------------------------------------------------------------------------
(* Properties of the filters list under construction and add calls only,   *)
(* checked under SpecGrowth.                                               *)

\* C17: for a ScalableBloomFilter built by construction and add calls only,
\* in every reachable state every filter except the last is full with
\* element_count exactly equal to its capacity, no filter's element_count
\* exceeds its capacity, and every filter other than the first holds at least
\* one element.
C17_FillLevels ==
    \A s \in SRefs :
        LET fs == sbfs[s].filters
        IN  \A n \in 1 .. Len(fs) :
               /\ n < Len(fs) => heap[fs[n]].element_count = heap[fs[n]].capacity
               /\ heap[fs[n]].element_count <= heap[fs[n]].capacity
               /\ n > 1 => heap[fs[n]].element_count >= 1

\* a filter list of three filters, the middle one of capacity above one and
\* filled, reached by an add call
C17_Witness ==
    /\ ret.op = "sadd" /\ ret.val = "None"
    /\ \E s \in SRefs :
          /\ Len(sbfs[s].filters) >= 3
          /\ heap[sbfs[s].filters[2]].capacity >= 2
          /\ heap[sbfs[s].filters[2]].element_count >= 2

\* C18: strictly increasing capacities. For a ScalableBloomFilter built by
\* construction and add calls only with scale_factor > 1 and an integer
\* initial_capacity > 0, in both scale modes every filter appended by growth
\* has a capacity strictly greater than that of the filter before it.
C18_StrictlyIncreasing ==
    \A s \in SRefs :
        sbfs[s].scale_factor[1] > sbfs[s].scale_factor[2] =>
            \A n \in 2 .. Len(sbfs[s].filters) :
                Capacities(s)[n] > Capacities(s)[n - 1]

----------------------------------------------------------------------------
(* Ownership of BloomFilter objects, checked under Spec. An object is a     *)
(* heap entry; its bit array is held inside it and is only ever replaced    *)
(* by a constructor, so two objects share storage only if they are the same *)
(* heap entry.                                                              *)

\* C19: BloomFilter.union and BloomFilter.intersection do not mutate or alias
\* their operands: the call leaves every field of both operands (and of every
\* other existing object) unchanged and returns, if anything, a newly
\* allocated object; and any add call changes the one object it is called on
\* and nothing else, so an add on a result changes no operand and an add on an
\* operand changes no result.
C19_OperandsKept ==
    [][ /\ ret'.op \in {"union", "intersection"} =>
              /\ \A i \in Refs : heap'[i] = heap[i]
              /\ ret'.val = "object" =>
                    (ret'.obj \notin Refs /\ ret'.obj = Len(heap'))
        /\ ret'.op = "add" =>
              /\ Len(heap') = Len(heap)
              /\ \E i \in Refs : \A j \in Refs \ {i} : heap'[j] = heap[j] ]_vars

\* the result of a union or intersection has received an element of its own
\* while an earlier object of the same shape holds different bits
C19_Witness ==
    /\ ret.op = "add"
    /\ \E r \in Refs :
          /\ origin[r] \in {"union", "intersection"}
          /\ added[r] # <<>>
          /\ \E i \in 1 .. r - 1 :
                /\ heap[i].size = heap[r].size
                /\ heap[i].bit_array # heap[r].bit_array

====
